---- MODULE Spec2Model ----
(***************************************************************************)
(* Model of the retrieval-augmented query pipeline of ai-note-system:      *)
(*   - QueryEngine.query        (src/core/query_engine.py)                 *)
(*   - TextChunker.split        (src/core/chunker.py)                      *)
(*                                                                         *)
(* Numbers.  Distances are held in fifths (distance 0.8 is 4), similarities*)
(* and thresholds in tenths (similarity 0.6 is 6), so that                 *)
(* similarity = 1 - distance/2 is Similarity(d) = 10 - d.  A confidence is *)
(* a fraction [num, den] with den > 0.                                     *)
(*                                                                         *)
(* Text.  A string is a sequence of one-character strings.  Inside the     *)
(* chunker every character is carried as [c, pos]: c is the character and  *)
(* pos its 1-based index in the input text (0 for a separator the chunker  *)
(* inserts itself).  The code only ever reads c.                           *)
(***************************************************************************)
EXTENDS Integers, Sequences, FiniteSets, TLC

VARIABLES
    qpc,                \* position of the query: "start" | "done"
    llm,                \* QueryEngine.llm is set (TRUE) or None (FALSE)
    top_k,              \* argument of QueryEngine.query
    retrieval_results,  \* what vector_store.search returned
    relevant_sources,   \* local of QueryEngine.query (line 63)
    answer,             \* the Answer returned by QueryEngine.query
    question,           \* argument of QueryEngine.query
    query_embedding,    \* local of QueryEngine.query (line 43), handed to search
    stages,             \* the stages QueryEngine.query went through, in order
    graph_calls,        \* calls of _expand_via_graph made by the query
    llm_calls,          \* calls of the completion provider made by the query
    cpc,                \* position of the chunker call: "start" | "done"
    text,               \* argument of TextChunker.split
    chunk_size,         \* TextChunker.chunk_size
    chunk_overlap,      \* TextChunker.chunk_overlap
    split_raised,       \* split ended with an exception instead of a result
    chunks,             \* the list split returned; each chunk with the place
                        \* of the code that closed it
    npc,                \* position of the NoteSystem: "ready" between calls,
                        \* "embed" | "write" inside add_note
    content_items,      \* NoteSystem.content_items
    index,              \* the records the Chroma collection holds
    index_before,       \* the collection when the call in hand was made
    call,               \* the call of NoteSystem in progress
    records,            \* local of VectorStore.add_note (line 53)
    embed_calls,        \* calls of embed_single made by the call in hand
    index_writes,       \* calls of collection.add made by the call in hand
    finished,           \* how the last call of NoteSystem ended
    vector_store,       \* NoteSystem.vector_store is set (TRUE) or None (FALSE)
    processed,          \* the ContentItems the processors build for the
                        \* sources that are added, in the order of the calls
    added,              \* how many of them add_content has been called for
    provider_up,        \* the embedding provider answers (TRUE) or its
                        \* embeddings.create raises (FALSE)
    asked               \* the last call of NoteSystem.ask and how it ended

qvars == <<qpc, llm, top_k, retrieval_results, relevant_sources, answer, question,
           query_embedding, stages, graph_calls, llm_calls>>

cvars == <<cpc, text, chunk_size, chunk_overlap, split_raised, chunks>>

nvars == <<npc, content_items, index, index_before, call, records, embed_calls,
           index_writes, finished>>

svars == <<vector_store, processed, added, provider_up, asked>>

vars == <<qvars, cvars, nvars, svars>>

---------------------------------------------------------------------------
(* Bounds of the model                                                     *)

\* largest top_k a caller passes, and so the longest match list and the
\* largest number of documents a match list names
MaxTopK == 5

\* longest input text of the chunker
MaxLen == 6

\* largest chunk_size and chunk_overlap a chunker is configured with
MaxChunkSize == 4

MaxOverlap == 3

\* most paragraphs of an input text put together from whole paragraphs
MaxParagraphs == 3

\* the most chunks a document is cut into
MaxChunks == 2

\* distances the index reports, in fifths: 0.2, 0.8, 1.2
Distances == {1, 4, 6}

---------------------------------------------------------------------------
(* Generic helpers                                                         *)

RECURSIVE SumSeq(_)
SumSeq(s) == IF s = <<>> THEN 0 ELSE Head(s) + SumSeq(Tail(s))

Range(s) == {s[i] : i \in DOMAIN s}

\* every ordering of the elements of a finite set
RECURSIVE Orderings(_)
Orderings(S) ==
    IF S = {} THEN {<<>>}
    ELSE UNION {{<<x>> \o p : p \in Orderings(S \ {x})} : x \in S}

---------------------------------------------------------------------------
(* Vector index, as the query engine sees it                               *)

\* ChromaVectorStore._search_vectors: similarity = 1 - distance/2
Similarity(distance) == 10 - distance

Match(k) == [note_id : 1..k, distance : Distances]

MaxNoteId(s) == IF s = <<>> THEN 0 ELSE CHOOSE n \in Range(s) : \A m \in Range(s) : m <= n

\* A match the index can report after the matches s: no nearer than the last
\* one.  Document ids are opaque, so lists are taken up to a renaming of the
\* ids: the documents are numbered in the order they first appear.
NextMatches(s, k) ==
    {m \in Match(k) :
        /\ s /= <<>> => m.distance >= s[Len(s)].distance
        /\ m.note_id <= MaxNoteId([i \in DOMAIN s |-> s[i].note_id]) + 1}

RECURSIVE ResultsOfLen(_, _)
ResultsOfLen(n, k) ==
    IF n = 0 THEN {<<>>}
    ELSE UNION {{Append(s, m) : m \in NextMatches(s, k)} : s \in ResultsOfLen(n - 1, k)}

\* The lists _search_vectors can return for n_results = k: at most k matches,
\* nearest first.
SearchResults(k) == UNION {ResultsOfLen(n, k) : n \in 0..k}

---------------------------------------------------------------------------
(* QueryEngine                                                             *)

\* the questions asked
Questions == {"what", "why"}

\* no vector yet
NoVector == [zero |-> FALSE, of |-> ""]

\* what the EmbeddingProvider returns for a text: its own vector for each text
ProviderEmbedding(t) == [zero |-> FALSE, of |-> t]

\* QueryEngine._embed, lines 102-106: [0.0] * 1536 whatever the text
Embed(t) == [zero |-> TRUE, of |-> ""]

\* the order of the statements of QueryEngine.query: line 43, lines 46-49,
\* line 52 (and 68), then the return of lines 54-60 (69-75), or lines 78-82,
\* lines 85-88 and the return of lines 94-100
RejectedStages == <<"embedding", "searching", "gating", "rejected">>

AnsweredStages == <<"embedding", "searching", "gating", "assembling", "generating",
                    "answered">>

\* _generate_answer_with_llm, lines 124-139: the prompt is built, the
\* completion provider is not called (line 138)
LlmCalls(hasLlm) == 0

\* QueryEngine.__init__: self.min_confidence_threshold = 0.6
min_confidence_threshold == 6

\* the literal 0.8 of QueryEngine.query, lines 52 and 65
MaxDistance == 4

\* the fixed refusal text of lines 55 and 70
REFUSAL == "no-relevant-information"

\* the text _generate_answer_with_llm returns (line 139)
LLM_STUB == "llm-answer-not-implemented"

Fraction(n, d) == [num |-> n, den |-> d]

\* the refusal built from a copy of the accepting return statement
RejectedAnswerMarkedSufficient ==
    [content |-> REFUSAL,
     sources |-> <<>>,
     confidence |-> Fraction(0, 1),
     related_notes |-> <<>>,
     has_sufficient_sources |-> TRUE]

\* lines 54-60 and 69-75
RejectedAnswer ==
    [content |-> REFUSAL,
     sources |-> <<>>,
     confidence |-> Fraction(0, 1),
     related_notes |-> <<>>,
     has_sufficient_sources |-> FALSE]

\* the filter with < in place of <=
IsRelevantStrict(r) == r.distance < MaxDistance

\* the condition of the list comprehension, line 65
IsRelevant(r) == r.distance <= MaxDistance

\* line 52: not retrieval_results or retrieval_results[0]['distance'] > 0.8
GateRejects(results) ==
    IF results = <<>> THEN TRUE ELSE results[1].distance > MaxDistance

\* the comparison of line 65 the other way round
KeptAtReversed(r, bound) == r.distance >= bound

\* the comparison of line 65, the literal 0.8 (MaxDistance) as a parameter
KeptAt(r, bound) == r.distance <= bound

\* the condition of line 52, the literal 0.8 (MaxDistance) as a parameter
GateRejectsAt(results, bound) ==
    IF results = <<>> THEN TRUE ELSE results[1].distance > bound

\* _expand_via_graph: the loop body is `pass`
ExpandViaGraph(source_ids) == <<>>

\* _generate_answer_simple: the refusal text without sources, else a digest of
\* the first three sources (never the refusal text)
GenerateAnswerSimple(sources) ==
    IF sources = <<>> THEN REFUSAL ELSE "simple-answer"

\* _generate_answer_with_llm
GenerateAnswerWithLlm(hasLlm) ==
    IF ~hasLlm THEN GenerateAnswerSimple(<<>>) ELSE LLM_STUB

\* lines 91-92: confidence = 1 - sum(distance)/len, as a fraction
Confidence(relevant) ==
    LET n == Len(relevant)
        total == SumSeq([i \in 1..n |-> relevant[i].distance])
    IN  Fraction(5 * n - total, 5 * n)

\* line 78: list(set(...)).  The iteration order of a set of str is fixed by the
\* process's hash seed, so any ordering of the distinct ids can come out.
SourceNoteIds(relevant) == Orderings({relevant[i].note_id : i \in DOMAIN relevant})

\* lines 77-100
AcceptedAnswer(hasLlm, relevant, source_note_ids) ==
    [content |-> IF hasLlm THEN GenerateAnswerWithLlm(hasLlm)
                 ELSE GenerateAnswerSimple(relevant),
     sources |-> source_note_ids,
     confidence |-> Confidence(relevant),
     related_notes |-> ExpandViaGraph(source_note_ids),
     has_sufficient_sources |-> TRUE]

NoAnswer ==
    [content |-> "",
     sources |-> <<>>,
     confidence |-> Fraction(0, 1),
     related_notes |-> <<>>,
     has_sufficient_sources |-> FALSE]

---------------------------------------------------------------------------
(* Strings                                                                 *)

\* the characters of the input texts: a letter, a sentence end, a blank, a newline
Alphabet == {"a", ".", " ", "\n"}

\* what \s of re and str.strip() take for whitespace, within Alphabet
Whitespace == {" ", "\n"}

\* the class [.!?...] of the sentence pattern (line 110), within Alphabet
SentenceEnd == {".", "!", "?"}

\* every text of at most MaxLen characters
ShortTexts == UNION {[1..n -> Alphabet] : n \in 0..MaxLen}

\* paragraphs of one to five characters, some of several words or sentences
ParagraphShapes ==
    {<<"a">>, <<"a", "a">>, <<"a", "a", "a">>, <<"a", "a", "a", "a", "a">>,
     <<"a", " ", "a">>, <<".", "a">>, <<"a", ".", " ", "a">>,
     <<"a", ".", "\n", "a", "a">>}

\* the texts of n such paragraphs with a blank line between them
RECURSIVE TextsOfParagraphs(_)
TextsOfParagraphs(n) ==
    IF n = 1 THEN ParagraphShapes
    ELSE {t \o <<"\n", "\n">> \o p : t \in TextsOfParagraphs(n - 1), p \in ParagraphShapes}

Texts == ShortTexts \cup UNION {TextsOfParagraphs(n) : n \in 1..MaxParagraphs}

\* the text with every character carrying its index
Tagged(t) == [i \in DOMAIN t |-> [c |-> t[i], pos |-> i]]

\* the Python string a tagged string stands for
Chars(s) == [i \in DOMAIN s |-> s[i].c]

IsSpace(ch) == ch.c \in Whitespace

SetMax(S) == CHOOSE x \in S : \A y \in S : y <= x

SetMin(S) == CHOOSE x \in S : \A y \in S : x <= y

\* str.strip()
Strip(s) ==
    LET solid == {i \in DOMAIN s : ~IsSpace(s[i])}
    IN  IF solid = {} THEN <<>> ELSE SubSeq(s, SetMin(solid), SetMax(solid))

\* separator.join(parts); the inserted separators carry pos 0
RECURSIVE Join(_, _)
Join(parts, sep) ==
    IF parts = <<>> THEN <<>>
    ELSE IF Len(parts) = 1 THEN parts[1]
    ELSE parts[1] \o <<[c |-> sep, pos |-> 0]>> \o Join(Tail(parts), sep)

\* sum(len(p) for p in parts)
TotalLen(parts) == SumSeq([i \in DOMAIN parts |-> Len(parts[i])])

---------------------------------------------------------------------------
(* TextChunker                                                             *)

\* paragraphs joined with a blank
SeparatorBlank == " "

\* TextChunker.__init__: separator = "\n"
separator == "\n"

\* Where a match of \n\s*\n that starts at i ends (\s* is greedy: at the last
\* newline of the whitespace that follows), or 0 when none starts at i.
ParagraphBreakEnd(s, i) ==
    IF s[i].c /= "\n" THEN 0
    ELSE LET ends == {j \in i + 1..Len(s) :
                        /\ s[j].c = "\n"
                        /\ \A k \in i + 1..j - 1 : IsSpace(s[k])}
         IN  IF ends = {} THEN 0 ELSE SetMax(ends)

\* re.split(r'\n\s*\n', text), scanning from i with the current piece begun at start
RECURSIVE SplitAtParagraphBreaks(_, _, _)
SplitAtParagraphBreaks(s, start, i) ==
    IF i > Len(s) THEN <<SubSeq(s, start, Len(s))>>
    ELSE LET j == ParagraphBreakEnd(s, i)
         IN  IF j > 0
             THEN <<SubSeq(s, start, i - 1)>> \o SplitAtParagraphBreaks(s, j + 1, j + 1)
             ELSE SplitAtParagraphBreaks(s, start, i + 1)

\* TextChunker._split_by_paragraphs
SplitByParagraphs(s) ==
    LET pieces == SplitAtParagraphBreaks(s, 1, 1)
        stripped == [i \in DOMAIN pieces |-> Strip(pieces[i])]
    IN  SelectSeq(stripped, LAMBDA p : p /= <<>>)

\* Where a match of (?<=[.!?...])\s+ that starts at i ends, or 0.
SentenceBreakEnd(s, i) ==
    IF i > 1 /\ s[i - 1].c \in SentenceEnd /\ IsSpace(s[i])
    THEN SetMax({j \in i..Len(s) : \A k \in i..j : IsSpace(s[k])})
    ELSE 0

\* re.split(r'(?<=[.!?...])\s+', paragraph)
RECURSIVE SplitAtSentenceBreaks(_, _, _)
SplitAtSentenceBreaks(s, start, i) ==
    IF i > Len(s) THEN <<SubSeq(s, start, Len(s))>>
    ELSE LET j == SentenceBreakEnd(s, i)
         IN  IF j > 0
             THEN <<SubSeq(s, start, i - 1)>> \o SplitAtSentenceBreaks(s, j + 1, j + 1)
             ELSE SplitAtSentenceBreaks(s, start, i + 1)

\* a chunk appended to a result list, with the place that appended it
Emitted(s, kind) == [text |-> s, kind |-> kind]

\* the overlap taken from the head of the last paragraph (last_chunk[:overlap])
GetOverlapFromHead(parts, overlap) ==
    IF parts = <<>> \/ overlap <= 0 THEN <<>>
    ELSE LET last_chunk == parts[Len(parts)]
         IN  IF Len(last_chunk) <= overlap THEN last_chunk
             ELSE SubSeq(last_chunk, 1, overlap)

\* the overlap taken to be the whole last paragraph, whatever chunk_overlap is
GetOverlapWholeParagraph(parts, overlap) ==
    IF parts = <<>> \/ overlap <= 0 THEN <<>>
    ELSE parts[Len(parts)]

\* TextChunker._get_overlap
GetOverlap(parts, overlap) ==
    IF parts = <<>> \/ overlap <= 0 THEN <<>>
    ELSE LET last_chunk == parts[Len(parts)]
         IN  IF Len(last_chunk) <= overlap THEN last_chunk
             ELSE SubSeq(last_chunk, Len(last_chunk) - overlap + 1, Len(last_chunk))

\* the window and the advance swapped: sent[i:i + step] for i in range(0, len, size)
RECURSIVE ForcedWindowsSwapped(_, _, _, _)
ForcedWindowsSwapped(sent, i, size, step) ==
    IF i >= Len(sent) THEN <<>>
    ELSE LET hi == IF i + step < Len(sent) THEN i + step ELSE Len(sent)
         IN  <<Emitted(SubSeq(sent, i + 1, hi), "window")>>
                 \o ForcedWindowsSwapped(sent, i + size, size, step)

\* lines 127-130: sent[i:i + chunk_size] for i in range(0, len(sent), step), step > 0
RECURSIVE ForcedWindows(_, _, _, _)
ForcedWindows(sent, i, size, step) ==
    IF i >= Len(sent) THEN <<>>
    ELSE LET hi == IF i + size < Len(sent) THEN i + size ELSE Len(sent)
         IN  <<Emitted(SubSeq(sent, i + 1, hi), "window")>>
                 \o ForcedWindows(sent, i + step, size, step)

\* the loop of _split_long_paragraph (lines 115-135) from sentence n on
RECURSIVE SentenceLoop(_, _, _, _, _, _, _)
SentenceLoop(sentences, n, out, current_chunk, current_length, size, overlap) ==
    IF n > Len(sentences)
    THEN [raised |-> FALSE,
          chunks |-> IF current_chunk /= <<>>
                     THEN Append(out, Emitted(Join(current_chunk, " "), "sentence"))
                     ELSE out]
    ELSE LET sent == sentences[n]
             sent_length == Len(sent)
         IN  IF current_length + sent_length <= size
             THEN SentenceLoop(sentences, n + 1, out, Append(current_chunk, sent),
                               current_length + sent_length, size, overlap)
             ELSE LET closed == IF current_chunk /= <<>>
                                THEN Append(out, Emitted(Join(current_chunk, " "), "sentence"))
                                ELSE out
                  IN  IF sent_length > size
                      THEN \* range() raises ValueError for a step of 0 and is
                           \* empty for a negative one
                           IF size - overlap = 0
                           THEN [raised |-> TRUE, chunks |-> <<>>]
                           ELSE SentenceLoop(sentences, n + 1,
                                    closed \o (IF size - overlap < 0 THEN <<>>
                                               ELSE ForcedWindows(sent, 0, size, size - overlap)),
                                    <<>>, 0, size, overlap)
                      ELSE SentenceLoop(sentences, n + 1, closed, <<sent>>, sent_length,
                                        size, overlap)

\* the forced windows advancing by one character less (chunk_size - chunk_overlap - 1)
SplitLongParagraphShortStep(paragraph, size, overlap) ==
    SentenceLoop(SplitAtSentenceBreaks(paragraph, 1, 1), 1, <<>>, <<>>, 0, size, overlap + 1)

\* TextChunker._split_long_paragraph
SplitLongParagraph(paragraph, size, overlap) ==
    SentenceLoop(SplitAtSentenceBreaks(paragraph, 1, 1), 1, <<>>, <<>>, 0, size, overlap)

\* the loop of _merge_paragraphs (lines 65-97) from paragraph n on
RECURSIVE ParagraphLoop(_, _, _, _, _, _, _)
ParagraphLoop(paragraphs, n, out, current_chunk, current_length, size, overlap) ==
    IF n > Len(paragraphs)
    THEN [raised |-> FALSE,
          chunks |-> IF current_chunk /= <<>>
                     THEN Append(out, Emitted(Join(current_chunk, separator), "final"))
                     ELSE out]
    ELSE LET para == paragraphs[n]
             para_length == Len(para)
         IN  IF para_length > size
             THEN LET flush == current_chunk /= <<>>
                      overlap_text == GetOverlap(current_chunk, overlap)
                      flushed == IF flush
                                 THEN Append(out, Emitted(Join(current_chunk, separator), "flush"))
                                 ELSE out
                      sub == SplitLongParagraph(para, size, overlap)
                  IN  IF sub.raised THEN [raised |-> TRUE, chunks |-> <<>>]
                      ELSE ParagraphLoop(paragraphs, n + 1, flushed \o sub.chunks,
                               IF flush THEN (IF overlap_text /= <<>> THEN <<overlap_text>>
                                              ELSE <<>>)
                               ELSE current_chunk,
                               IF flush THEN Len(overlap_text) ELSE current_length,
                               size, overlap)
             ELSE LET new_length == current_length + para_length + 1
                  IN  IF new_length <= size
                      THEN ParagraphLoop(paragraphs, n + 1, out, Append(current_chunk, para),
                                         new_length, size, overlap)
                      ELSE LET overlap_text == GetOverlap(current_chunk, overlap)
                               seeded == (IF overlap_text /= <<>> THEN <<overlap_text>>
                                          ELSE <<>>) \o <<para>>
                           IN  ParagraphLoop(paragraphs, n + 1,
                                   IF current_chunk /= <<>>
                                   THEN Append(out, Emitted(Join(current_chunk, separator), "merge"))
                                   ELSE out,
                                   seeded, TotalLen(seeded) + Len(seeded) * 1,
                                   size, overlap)

\* TextChunker._merge_paragraphs
MergeParagraphs(paragraphs, size, overlap) ==
    ParagraphLoop(paragraphs, 1, <<>>, <<>>, 0, size, overlap)

\* the filter without the strip: [c for c in chunks if c.strip()]
StripAllKeepingBlanks(out) == SelectSeq(out, LAMBDA ch : Strip(ch.text) /= <<>>)

\* line 51: [c.strip() for c in chunks if c.strip()]
StripAll(out) ==
    LET stripped == [i \in DOMAIN out |-> Emitted(Strip(out[i].text), out[i].kind)]
    IN  SelectSeq(stripped, LAMBDA ch : ch.text /= <<>>)

\* TextChunker.split
Split(t, size, overlap) ==
    IF t = <<>> THEN [raised |-> FALSE, chunks |-> <<>>]
    ELSE IF Len(t) <= size
    THEN [raised |-> FALSE, chunks |-> StripAll(<<Emitted(Tagged(t), "whole")>>)]
    ELSE LET merged == MergeParagraphs(SplitByParagraphs(Tagged(t)), size, overlap)
         IN  [raised |-> merged.raised, chunks |-> StripAll(merged.chunks)]

---------------------------------------------------------------------------
(* VectorStore.add_note, ChromaVectorStore and NoteSystem                  *)

\* the ids ContentItem.generate_id gives to the sources in use
NoteIds == {"note_1", "note_2"}

\* ContentItem.title of a document: the second document has none
Title(note_id) == IF note_id = "note_1" THEN "Title" ELSE ""

\* ContentItem.content: the empty string, a string of whitespace, or a text,
\* known by the number of chunks chunk_text(content, 500, 50) cuts it into
\* (at least one for a text that is not blank)
Contents ==
    {[kind |-> "empty", chunks |-> 0], [kind |-> "blank", chunks |-> 0]}
        \cup {[kind |-> "text", chunks |-> n] : n \in 1..MaxChunks}

\* chunk_text(content, chunk_size=500, chunk_overlap=50): the chunks of a text,
\* each told apart by its text and its place
ChunkText(content) == [k \in 1..content.chunks |-> [of |-> content.chunks, part |-> k]]

\* line 56: f"{title}\n\n{chunk}" if title else chunk
ChunkWithContext(title, chunk) == [title |-> title, blank_line |-> title /= "", chunk |-> chunk]

\* [0.0] * self.dimension
ZeroVector == [zero |-> TRUE, of |-> ChunkWithContext("", [of |-> 0, part |-> 0])]

\* EmbeddingService.embed_single(t) for a text that is not blank: the vector
\* the provider returned for t, or the zero vector when the provider raised
\* (the exception is caught in embedding.py, lines 65-68)
EmbedSingle(t, up) == IF up THEN [zero |-> FALSE, of |-> t] ELSE ZeroVector

\* the chunks numbered from 1: f"{note_id}_chunk_{i + 1}"
ChunkIdFromOne(note_id, i) == <<note_id, "_chunk_", i + 1>>

\* line 62: f"{note_id}_chunk_{i}"
ChunkId(note_id, i) == <<note_id, "_chunk_", i>>

\* lines 64-76 and 170-172: the record of chunk i (from 0) as it is stored
VectorRecord(note_id, title, chunk_list, i, embedding) ==
    [id |-> ChunkId(note_id, i),
     note_id |-> note_id,
     content |-> chunk_list[i + 1],
     embedding |-> embedding,
     title |-> title,
     chunk_index |-> i,
     total_chunks |-> Len(chunk_list)]

\* line 82: [r.id for r in records]
RecordIds(rs) == [k \in DOMAIN rs |-> rs[k].id]

\* collection.add: the records are stored under their ids; a record whose id
\* the collection already holds is not stored, the one held is kept
CollectionAdd(held, rs) ==
    held \cup {r \in Range(rs) : \A h \in held : h.id /= r.id}

\* collection.delete(where={"note_id": note_id})
CollectionDelete(held, note_id) == {h \in held : h.note_id /= note_id}

\* the sources that are added: the processors' source types and the paths
SourceTypes == {"markdown", "pdf"}

SourcePaths == {"notes/a", "notes/b"}

Titles == {"", "Title"}

\* line 29: f"{self.source_type}:{self.source_path}"
IdKey(item) == <<item.source_type, ":", item.source_path>>

\* lines 28-31: "note_" and the first 16 hexadecimal digits of the SHA-256 of
\* the key, for the keys of the sources in use
NoteDigest(key) ==
    CASE key = <<"markdown", ":", "notes/a">> -> "note_421aa1d17f5ba55f"
      [] key = <<"markdown", ":", "notes/b">> -> "note_dcb2fe4442c5022d"
      [] key = <<"pdf", ":", "notes/a">> -> "note_58c5fdefbcc88baa"
      [] key = <<"pdf", ":", "notes/b">> -> "note_9835cdcd97dfcb6a"

\* an id that takes the content in: a text and a content without text of one
\* source type hashed apart, whatever the path
GenerateIdFromContent(item) ==
    NoteDigest(<<item.source_type, ":",
                 IF item.content.kind = "text" THEN "notes/a" ELSE "notes/b">>)

\* ContentItem.generate_id
GenerateId(item) == NoteDigest(IdKey(item))

\* what a processor's process(source) returns: the ContentItem built with
\* id="" and then given item.generate_id() (connectors, e.g.
\* markdown_parser.py, lines 51-61)
Process(source_type, source_path, title, content) ==
    LET item == [id |-> "", source_type |-> source_type, source_path |-> source_path,
                 title |-> title, content |-> content]
    IN  [item EXCEPT !.id = GenerateId(item)]

ProcessedItems ==
    {Process(source_type, source_path, title, content) :
        source_type \in SourceTypes, source_path \in SourcePaths,
        title \in Titles, content \in Contents}

\* no call has been made yet
NotCalling == [op |-> "none", note_id |-> "", title |-> "",
               content |-> [kind |-> "empty", chunks |-> 0]]

NoCall == [op |-> "none", note_id |-> "", add_note |-> "none", ids |-> <<>>,
           index_failed |-> FALSE, returned |-> "none"]

\* the call in progress, or the last call when none is: add_content or
\* delete_note of the NoteSystem, or add_note made on the store itself
Call(op, note_id, title, content) ==
    [op |-> op, note_id |-> note_id, title |-> title, content |-> content]

\* the end of a call: how add_note ended ("not_called" | "returned" | "raised"),
\* the ids it returned, whether the call of the collection raised, and what the
\* call gave its caller ("item" | "ids" | "raised" | "True" | "False")
CallEnd(op, note_id, add_note, ids, index_failed, returned) ==
    [op |-> op, note_id |-> note_id, add_note |-> add_note, ids |-> ids,
     index_failed |-> index_failed, returned |-> returned]

\* the fixed text of the payload of line 202
INDEX_UNAVAILABLE == "index-unavailable"

\* the payload of lines 201-207 with has_sufficient_sources True
UnavailablePayloadMarkedSufficient ==
    [answer |-> INDEX_UNAVAILABLE,
     sources |-> <<>>,
     confidence |-> 0,
     has_sufficient_sources |-> TRUE,
     source_chunks |-> <<>>]

\* the payload of lines 201-207
UnavailablePayload ==
    [answer |-> INDEX_UNAVAILABLE,
     sources |-> <<>>,
     confidence |-> 0,
     has_sufficient_sources |-> FALSE,
     source_chunks |-> <<>>]

\* no payload: ask was not called, or raised
NoPayload ==
    [answer |-> "",
     sources |-> <<>>,
     confidence |-> 0,
     has_sufficient_sources |-> FALSE,
     source_chunks |-> <<>>]

NotAsked == [outcome |-> "none", question |-> "", payload |-> NoPayload,
             engine_built |-> FALSE, provider_calls |-> 0]

\* NoteSystem.ask, lines 194-233.  Without a vector store the payload of lines
\* 201-207 is returned before anything is called.  With one, line 212 calls
\* QueryEngine(vector_store=, knowledge_graph=, llm_service=), and
\* QueryEngine.__init__(self, vector_store, knowledge_graph, llm_client=None)
\* (query_engine.py line 25) has no parameter llm_service: the call raises
\* TypeError, no engine is built, query (line 217) is not reached.
AskOutcome(has_store, q) ==
    IF ~has_store
    THEN [outcome |-> "returned", question |-> q, payload |-> UnavailablePayload,
          engine_built |-> FALSE, provider_calls |-> 0]
    ELSE [outcome |-> "raised", question |-> q, payload |-> NoPayload,
          engine_built |-> FALSE, provider_calls |-> 0]

\* ContentItem as add_content stores it
ContentItem(content, vector_ids) == [content |-> content, vector_ids |-> vector_ids]

\* content_items without the key note_id
Without(items, note_id) == [k \in DOMAIN items \ {note_id} |-> items[k]]

\* no NoteSystem is in use
NotesIdle ==
    /\ npc = "idle"
    /\ vector_store = FALSE
    /\ processed = <<>>
    /\ added = 0
    /\ provider_up = FALSE
    /\ asked = NotAsked
    /\ content_items = <<>>
    /\ index = {}
    /\ index_before = {}
    /\ call = NotCalling
    /\ records = <<>>
    /\ embed_calls = 0
    /\ index_writes = 0
    /\ finished = NoCall

\* NoteSystem.__init__ with a ChromaVectorStore over an empty collection
NotesInit ==
    /\ npc = "ready"
    /\ vector_store = TRUE
    /\ processed = <<>>
    /\ added = 0
    /\ provider_up = TRUE
    /\ asked = NotAsked
    /\ content_items = <<>>
    /\ index = {}
    /\ index_before = {}
    /\ call = NotCalling
    /\ records = <<>>
    /\ embed_calls = 0
    /\ index_writes = 0
    /\ finished = NoCall

\* only the empty string stops add_note (the test of content.strip() and the
\* test of the chunk list left out)
NothingToStoreWhenEmpty(content) == content.kind = "empty"

\* VectorStore.add_note, lines 43-44 and 49-50: the content is empty or blank,
\* or the chunker returned no chunk
NothingToStore(content) == content.kind \in {"empty", "blank"} \/ ChunkText(content) = <<>>

\* VectorStore.add_note, lines 43-50: [] at once when there is nothing to
\* store, else the chunks are cut and the loop over them begins
BeginAddNote(op, note_id, title, content) ==
    /\ index_before' = index
    /\ embed_calls' = 0
    /\ index_writes' = 0
    /\ records' = <<>>
    /\ IF ~NothingToStore(content)
       THEN /\ npc' = "embed"
            /\ finished' = NoCall
       ELSE /\ npc' = "ready"
            /\ finished' = CallEnd(op, note_id, "returned", <<>>, FALSE,
                                   IF op = "add_content" THEN "item" ELSE "ids")
    /\ call' = Call(op, note_id, title, content)
    /\ UNCHANGED index

\* VectorStore.add_note called on the store itself, up to its first embedding
AddNote(note_id, content) ==
    /\ npc = "ready"
    /\ BeginAddNote("add_note", note_id, Title(note_id), content)
    /\ UNCHANGED content_items
    /\ UNCHANGED <<qvars, cvars, svars>>

\* NoteSystem.add_content, lines 66-106, up to the first embedding of add_note:
\* the item is stored (line 91), then add_note is called unless there is no
\* vector store or the content is empty (line 94)
AddContent(note_id, content) ==
    /\ npc = "ready"
    /\ content_items' = (note_id :> ContentItem(content, <<>>)) @@ content_items
    /\ IF ~vector_store \/ content.kind = "empty"
       THEN /\ finished' = CallEnd("add_content", note_id, "not_called", <<>>, FALSE, "item")
            /\ index_before' = index
            /\ embed_calls' = 0
            /\ index_writes' = 0
            /\ records' = <<>>
            /\ call' = Call("add_content", note_id, Title(note_id), content)
            /\ UNCHANGED <<npc, index>>
       ELSE BeginAddNote("add_content", note_id,
                         IF Title(note_id) /= "" THEN Title(note_id) ELSE "Untitled",
                         content)
    /\ UNCHANGED <<qvars, cvars, vector_store, processed, provider_up, asked>>

\* one turn of the loop that stores every record as soon as it is embedded
EmbedChunkAndStore ==
    /\ npc = "embed"
    /\ LET chunk_list == ChunkText(call.content)
           i == Len(records)
       IN  /\ records' = Append(records,
                  VectorRecord(call.note_id, call.title, chunk_list, i,
                      EmbedSingle(ChunkWithContext(call.title, chunk_list[i + 1]),
                                  provider_up)))
           /\ npc' = IF i + 1 = Len(chunk_list) THEN "write" ELSE "embed"
    /\ index' = CollectionAdd(index, <<records'[Len(records')]>>)
    /\ embed_calls' = embed_calls + 1
    /\ UNCHANGED <<content_items, index_before, call, index_writes, finished>>
    /\ UNCHANGED <<qvars, cvars, svars>>

\* VectorStore.add_note, lines 54-77: one turn of the loop over the chunks
EmbedChunk ==
    /\ npc = "embed"
    /\ LET chunk_list == ChunkText(call.content)
           i == Len(records)
       IN  /\ records' = Append(records,
                  VectorRecord(call.note_id, call.title, chunk_list, i,
                      EmbedSingle(ChunkWithContext(call.title, chunk_list[i + 1]),
                                  provider_up)))
           /\ npc' = IF i + 1 = Len(chunk_list) THEN "write" ELSE "embed"
    /\ embed_calls' = embed_calls + 1
    /\ UNCHANGED <<content_items, index, index_before, call, index_writes, finished>>
    /\ UNCHANGED <<qvars, cvars, svars>>

\* VectorStore.add_note, lines 80-82, with ChromaVectorStore._add_records: the
\* one call of collection.add stores the records or raises; add_note returns
\* the ids or lets the exception through. add_content (lines 106-109) keeps the
\* ids in the item, or catches the exception and prints it, and returns the item.
AddRecords ==
    /\ npc = "write"
    /\ npc' = "ready"
    /\ index_writes' = index_writes + 1
    /\ \/ /\ index' = CollectionAdd(index, records)
          /\ content_items' =
                 IF call.op = "add_content"
                 THEN [content_items EXCEPT ![call.note_id].vector_ids = RecordIds(records)]
                 ELSE content_items
          /\ finished' = CallEnd(call.op, call.note_id, "returned", RecordIds(records), FALSE,
                                 IF call.op = "add_content" THEN "item" ELSE "ids")
       \/ /\ index' = index
          /\ content_items' = content_items
          /\ finished' = CallEnd(call.op, call.note_id, "raised", <<>>, TRUE,
                                 IF call.op = "add_content" THEN "item" ELSE "raised")
    /\ UNCHANGED <<index_before, call, records, embed_calls>>
    /\ UNCHANGED <<qvars, cvars, svars>>

\* NoteSystem.delete_note, lines 171-192, with ChromaVectorStore.delete, which
\* deletes the document's records or raises, and is not called without a
\* vector store (line 177)
DeleteNote(note_id) ==
    /\ npc = "ready"
    /\ index_before' = index
    /\ embed_calls' = 0
    /\ index_writes' = 0
    /\ records' = <<>>
    /\ call' = Call("delete_note", note_id, "", NotCalling.content)
    /\ IF note_id \notin DOMAIN content_items
       THEN /\ finished' = CallEnd("delete_note", note_id, "none", <<>>, FALSE, "False")
            /\ UNCHANGED <<content_items, index>>
       ELSE /\ content_items' = Without(content_items, note_id)
            /\ \/ /\ vector_store
                  /\ index' = CollectionDelete(index, note_id)
                  /\ finished' = CallEnd("delete_note", note_id, "none", <<>>, FALSE, "True")
               \/ /\ vector_store
                  /\ index' = index
                  /\ finished' = CallEnd("delete_note", note_id, "none", <<>>, TRUE, "True")
               \/ /\ ~vector_store
                  /\ index' = index
                  /\ finished' = CallEnd("delete_note", note_id, "none", <<>>, FALSE, "True")
    /\ UNCHANGED npc
    /\ UNCHANGED <<qvars, cvars, svars>>

\* NoteSystem.ask(question) between two calls of the NoteSystem
Ask(q) ==
    /\ npc = "ready"
    /\ asked' = AskOutcome(vector_store, q)
    /\ UNCHANGED <<qvars, cvars, nvars, vector_store, processed, added, provider_up>>

\* the process ends and a new one starts: NoteSystem.__init__ (lines 56-60)
\* gives an empty content_items, the persistent collection of
\* ChromaVectorStore._init_chroma keeps its records
Restart ==
    /\ npc = "ready"
    /\ content_items' = <<>>
    /\ index_before' = index
    /\ call' = NotCalling
    /\ finished' = NoCall
    /\ records' = <<>>
    /\ embed_calls' = 0
    /\ index_writes' = 0
    /\ asked' = NotAsked
    /\ UNCHANGED <<npc, index>>
    /\ UNCHANGED <<qvars, cvars, vector_store, processed, added, provider_up>>

\* NoteSystem.add_content(source) for the next of the sources: the processor
\* builds the item (line 88), which is then added as above
AddSource ==
    /\ added < Len(processed)
    /\ AddContent(processed[added + 1].id, processed[added + 1].content)
    /\ added' = added + 1

\* a NoteSystem with or without a vector store, an embedding provider that
\* answers or not, and the items of two sources
SourcesInit ==
    /\ npc = "ready"
    /\ vector_store \in BOOLEAN
    /\ provider_up \in BOOLEAN
    /\ asked = NotAsked
    /\ processed \in ProcessedItems \X ProcessedItems
    /\ added = 0
    /\ content_items = <<>>
    /\ index = {}
    /\ index_before = {}
    /\ call = NotCalling
    /\ records = <<>>
    /\ embed_calls = 0
    /\ index_writes = 0
    /\ finished = NoCall

\* the chunker is not in use
ChunkerIdle ==
    /\ cpc = "idle"
    /\ text = <<>>
    /\ chunk_size = 0
    /\ chunk_overlap = 0
    /\ split_raised = FALSE
    /\ chunks = <<>>

\* no query is in progress
QueryIdle ==
    /\ qpc = "idle"
    /\ question = ""
    /\ query_embedding = NoVector
    /\ stages = <<>>
    /\ graph_calls = 0
    /\ llm_calls = 0
    /\ llm = FALSE
    /\ top_k = 0
    /\ retrieval_results = <<>>
    /\ relevant_sources = <<>>
    /\ answer = NoAnswer

\* a QueryEngine and the arguments and search result of one call of query
QueryInputs(maxTopK) ==
    /\ qpc = "start"
    /\ question \in Questions
    /\ query_embedding = NoVector
    /\ stages = <<>>
    /\ graph_calls = 0
    /\ llm_calls = 0
    /\ llm \in BOOLEAN
    /\ top_k \in 1..maxTopK
    /\ retrieval_results \in SearchResults(top_k)
    /\ relevant_sources = <<>>
    /\ answer = NoAnswer

\* QueryEngine.query, lines 32-100
Query ==
    /\ qpc = "start"
    /\ qpc' = "done"
    /\ query_embedding' = Embed(question)
    /\ \/ /\ GateRejects(retrieval_results)
          /\ relevant_sources' = <<>>
          /\ answer' = RejectedAnswer
          /\ stages' = RejectedStages
          /\ graph_calls' = 0
          /\ llm_calls' = 0
       \/ /\ ~GateRejects(retrieval_results)
          /\ relevant_sources' = SelectSeq(retrieval_results, IsRelevant)
          /\ IF relevant_sources' = <<>>
             THEN /\ answer' = RejectedAnswer
                  /\ stages' = RejectedStages
                  /\ graph_calls' = 0
                  /\ llm_calls' = 0
             ELSE /\ \E ids \in SourceNoteIds(relevant_sources') :
                        answer' = AcceptedAnswer(llm, relevant_sources', ids)
                  /\ stages' = AnsweredStages
                  /\ graph_calls' = 1
                  /\ llm_calls' = LlmCalls(llm)
    /\ UNCHANGED <<llm, top_k, question, retrieval_results>>
    /\ UNCHANGED cvars
    /\ UNCHANGED <<nvars, svars>>

\* a TextChunker and the argument of one call of split
ChunkerInputs ==
    /\ cpc = "start"
    /\ text \in Texts
    /\ chunk_size \in 1..MaxChunkSize
    /\ chunk_overlap \in 0..MaxOverlap
    /\ split_raised = FALSE
    /\ chunks = <<>>

\* TextChunker.split, lines 28-51 (and chunk_text, lines 155-172)
SplitCall ==
    /\ cpc = "start"
    /\ cpc' = "done"
    /\ LET r == Split(text, chunk_size, chunk_overlap)
       IN  /\ split_raised' = r.raised
           /\ chunks' = r.chunks
    /\ UNCHANGED <<text, chunk_size, chunk_overlap>>
    /\ UNCHANGED qvars
    /\ UNCHANGED <<nvars, svars>>

Init == QueryInputs(MaxTopK) /\ ChunkerIdle /\ NotesIdle

Next == Query

\* one call of QueryEngine.query with top_k up to MaxTopK
Spec == Init /\ [][Next]_vars

InitAnyTopK == QueryInputs(MaxTopK + 1) /\ ChunkerIdle /\ NotesIdle

\* one call of QueryEngine.query with a top_k above the default of 5
SpecAnyTopK == InitAnyTopK /\ [][Next]_vars

InitChunker == ChunkerInputs /\ QueryIdle /\ NotesIdle

NextChunker == SplitCall

\* one call of TextChunker.split
SpecChunker == InitChunker /\ [][NextChunker]_vars

InitNotes == NotesInit /\ QueryIdle /\ ChunkerIdle

NextNotes ==
    \/ \E note_id \in NoteIds : \E content \in Contents :
           AddContent(note_id, content) /\ UNCHANGED added
    \/ \E note_id \in NoteIds : \E content \in Contents : AddNote(note_id, content)
    \/ EmbedChunk
    \/ AddRecords
    \/ \E note_id \in NoteIds : DeleteNote(note_id)

\* a NoteSystem over a ChromaVectorStore, the calls of the NoteSystem and of
\* the store made one after another
SpecNotes == InitNotes /\ [][NextNotes]_vars

InitSources == SourcesInit /\ QueryIdle /\ ChunkerIdle

NextSources ==
    \/ AddSource
    \/ EmbedChunk
    \/ AddRecords
    \/ \E q \in Questions : Ask(q)

\* two sources added to a NoteSystem one after the other, and questions asked
SpecSources == InitSources /\ [][NextSources]_vars

NextSystem ==
    \/ \E note_id \in NoteIds : \E content \in Contents :
           AddContent(note_id, content) /\ UNCHANGED added
    \/ EmbedChunk
    \/ AddRecords
    \/ \E note_id \in NoteIds : DeleteNote(note_id)
    \/ Restart

\* the calls of one NoteSystem over a persistent index, and restarts
SpecSystem == InitNotes /\ [][NextSystem]_vars

---------------------------------------------------------------------------
(* Claims about QueryEngine.query                                          *)

Returned == qpc = "done"

\* the matches of s whose similarity reaches the threshold t
AtLeastAsSimilar(s, t) == SelectSeq(s, LAMBDA r : Similarity(r.distance) >= t)

\* the first match of every document, in the order of s
RECURSIVE FirstPerNote(_, _)
FirstPerNote(s, seen) ==
    IF s = <<>> THEN <<>>
    ELSE IF Head(s).note_id \in seen THEN FirstPerNote(Tail(s), seen)
    ELSE <<Head(s)>> \o FirstPerNote(Tail(s), seen \cup {Head(s).note_id})

NoDuplicates(s) == \A i, j \in DOMAIN s : s[i] = s[j] => i = j

\* C1: every Answer that query returns has empty sources, confidence 0 and
\* empty related_notes when has_sufficient_sources is false, and at least one
\* source document id when it is true.
C1_AnswerWellFormed ==
    Returned =>
        /\ ~answer.has_sufficient_sources =>
              /\ answer.sources = <<>>
              /\ answer.confidence.num = 0
              /\ answer.related_notes = <<>>
        /\ answer.has_sufficient_sources => Len(answer.sources) >= 1

\* a query was refused although the index returned matches
C1_Witness ==
    /\ Returned
    /\ retrieval_results /= <<>>
    /\ ~answer.has_sufficient_sources

\* C2: with similarity = 1 - distance/2 and the engine's threshold of 0.6, an
\* empty match list or a best match below the threshold gives the refusal
\* (has_sufficient_sources false, no sources, confidence 0, the fixed text);
\* otherwise exactly the matches with similarity >= threshold are kept.
C2_GatingBySimilarity ==
    Returned =>
        IF retrieval_results = <<>>
        THEN answer = [content |-> REFUSAL, sources |-> <<>>,
                       confidence |-> Fraction(0, 1), related_notes |-> <<>>,
                       has_sufficient_sources |-> FALSE]
        ELSE IF Similarity(retrieval_results[1].distance) < min_confidence_threshold
        THEN answer = [content |-> REFUSAL, sources |-> <<>>,
                       confidence |-> Fraction(0, 1), related_notes |-> <<>>,
                       has_sufficient_sources |-> FALSE]
        ELSE /\ answer.has_sufficient_sources
             /\ relevant_sources =
                    AtLeastAsSimilar(retrieval_results, min_confidence_threshold)
             /\ Range(answer.sources) =
                    {r.note_id : r \in Range(AtLeastAsSimilar(retrieval_results,
                                                            min_confidence_threshold))}

\* an accepted query whose best kept match sits exactly on the threshold, with a
\* farther match filtered out
C2_Witness ==
    /\ Returned
    /\ answer.has_sufficient_sources
    /\ Similarity(retrieval_results[1].distance) = min_confidence_threshold
    /\ Len(relevant_sources) < Len(retrieval_results)

\* C3: the confidence of an accepted Answer is the arithmetic mean of the
\* similarities of the kept matches after deduplication by document; with
\* similarities 0.9 and 0.4 and threshold 0.6 it is 0.9.
C3_ConfidenceIsMeanSimilarity ==
    (Returned /\ answer.has_sufficient_sources) =>
        LET kept == FirstPerNote(
                        AtLeastAsSimilar(retrieval_results, min_confidence_threshold), {})
            total == SumSeq([i \in DOMAIN kept |-> Similarity(kept[i].distance)])
        IN  answer.confidence.num * 10 * Len(kept) = total * answer.confidence.den

\* C4: the sources of an accepted Answer hold no document id twice and at most
\* max_context_chunks = 5 ids, whatever top_k is.
C4_SourcesDistinctAndCapped ==
    (Returned /\ answer.has_sufficient_sources) =>
        /\ NoDuplicates(answer.sources)
        /\ Len(answer.sources) <= 5

\* C5: the sources of an accepted Answer are the distinct document ids in the
\* order of their first occurrence in the match list.
C5_SourcesInMatchOrder ==
    (Returned /\ answer.has_sufficient_sources) =>
        LET kept == FirstPerNote(relevant_sources, {})
        IN  answer.sources = [i \in DOMAIN kept |-> kept[i].note_id]

---------------------------------------------------------------------------
(* Claims about TextChunker.split                                          *)

SplitReturned == cpc = "done" /\ ~split_raised

\* 0 <= chunk_overlap < chunk_size
OverlapBelowSize == chunk_overlap < chunk_size

\* the list of Python strings split returned
Returned_chunks == [i \in DOMAIN chunks |-> Chars(chunks[i].text)]

\* text without its leading whitespace, then without its trailing whitespace
RECURSIVE TrimLeft(_)
TrimLeft(t) ==
    IF t = <<>> THEN <<>>
    ELSE IF Head(t) \in Whitespace THEN TrimLeft(Tail(t)) ELSE t

RECURSIVE TrimRight(_)
TrimRight(t) ==
    IF t = <<>> THEN <<>>
    ELSE IF t[Len(t)] \in Whitespace THEN TrimRight(SubSeq(t, 1, Len(t) - 1)) ELSE t

Trim(t) == TrimRight(TrimLeft(t))

IsPrefix(p, t) == Len(p) <= Len(t) /\ SubSeq(t, 1, Len(p)) = p

\* the characters of a chunk that follow its last inserted separator
LastParagraph(s) ==
    LET seps == {i \in DOMAIN s : s[i].pos = 0}
    IN  IF seps = {} THEN s ELSE SubSeq(s, SetMax(seps) + 1, Len(s))

\* the last k characters of s
Suffix(s, k) == SubSeq(s, Len(s) - k + 1, Len(s))

\* the trailing min(chunk_overlap, length of the last paragraph) characters of a chunk
OverlapTail(s) ==
    LET last == LastParagraph(s)
    IN  Suffix(s, IF chunk_overlap < Len(last) THEN chunk_overlap ELSE Len(last))

\* C6: with 0 <= chunk_overlap < chunk_size, every chunk split returns for a
\* non-empty text is at most chunk_size long, chunks opened with an overlap
\* seed and sub-chunks of joined sentences included.
C6_ChunkSizeBound ==
    (SplitReturned /\ OverlapBelowSize /\ text /= <<>>) =>
        \A i \in DOMAIN chunks : Len(chunks[i].text) <= chunk_size

\* C7: with 0 <= chunk_overlap < chunk_size, split returns, and every
\* non-whitespace character of the text appears in at least one chunk, the
\* characters of a chunk standing in the order of the text.
C7_Coverage ==
    (cpc = "done" /\ OverlapBelowSize) =>
        /\ ~split_raised
        /\ \A p \in DOMAIN text :
              text[p] \notin Whitespace =>
                  \E i \in DOMAIN chunks : \E k \in DOMAIN chunks[i].text :
                      /\ chunks[i].text[k].pos = p
                      /\ chunks[i].text[k].c = text[p]
        /\ \A i \in DOMAIN chunks : \A k, l \in DOMAIN chunks[i].text :
              (k < l /\ chunks[i].text[k].pos > 0 /\ chunks[i].text[l].pos > 0)
                  => chunks[i].text[k].pos < chunks[i].text[l].pos

\* a chunk was flushed, the long paragraph after it cut into forced windows, and
\* the overlap kept from the flushed chunk joined with a later paragraph
C7_Witness ==
    /\ cpc = "done"
    /\ OverlapBelowSize
    /\ \E i, j, k \in DOMAIN chunks :
          /\ i < j /\ j < k
          /\ chunks[i].kind = "flush"
          /\ chunks[j].kind = "window"
          /\ chunks[k].text[1].pos > 0
          /\ chunks[k].text[1].pos < chunks[j].text[1].pos
          /\ chunks[k].text[Len(chunks[k].text)].pos > chunks[j].text[1].pos

C9_ShortInput ==
    cpc = "done" =>
        /\ Len(text) <= chunk_size =>
              /\ ~split_raised
              /\ Returned_chunks = IF Trim(text) = <<>> THEN <<>> ELSE <<Trim(text)>>
        /\ (\A p \in DOMAIN text : text[p] \in Whitespace) =>
              /\ ~split_raised
              /\ Returned_chunks = <<>>

\* a short text with whitespace around its content
C9_Witness ==
    /\ cpc = "done"
    /\ Len(text) <= chunk_size
    /\ Len(text) >= 3
    /\ text[1] \in Whitespace
    /\ text[Len(text)] \in Whitespace
    /\ chunks /= <<>>

\* the paragraphs of the text, and whether the merge step takes them all into
\* one running chunk (every paragraph counted with one separator)
Paragraphs == SplitByParagraphs(Tagged(text))

ParagraphsFitTogether ==
    /\ Paragraphs /= <<>>
    /\ TotalLen(Paragraphs) + Len(Paragraphs) <= chunk_size

\* C10, as claimed: when the paragraphs of a text fit together in one chunk of
\* chunk_size, split returns one chunk, the paragraphs joined by a single
\* newline, whether the raw text is longer than chunk_size or not.
C10_ParagraphsJoinedInOneChunk ==
    (cpc = "done" /\ ParagraphsFitTogether) =>
        /\ ~split_raised
        /\ Returned_chunks = <<Chars(Join(Paragraphs, "\n"))>>

\* C10, amended: when the raw text is longer than chunk_size and its paragraphs
\* fit together, split returns one chunk, the paragraphs joined by a single
\* newline; a text no longer than chunk_size is returned trimmed with its blank
\* lines kept.
C10_ParagraphsJoinedWhenTextIsLong ==
    (cpc = "done" /\ ParagraphsFitTogether) =>
        /\ ~split_raised
        /\ Len(text) > chunk_size =>
              Returned_chunks = <<Chars(Join(Paragraphs, "\n"))>>
        /\ Len(text) <= chunk_size => Returned_chunks = <<Trim(text)>>

\* two paragraphs, far enough apart for the text to exceed chunk_size, in one chunk
C10_Witness ==
    /\ cpc = "done"
    /\ ParagraphsFitTogether
    /\ Len(Paragraphs) >= 2
    /\ Len(text) > chunk_size
    /\ Len(chunks) = 1

\* a text of two paragraphs, each no longer than chunk_size, the second of which
\* does not fit the running chunk that holds the first (lines 83-87:
\* current_length + para_length + len(separator) > chunk_size)
TwoParagraphsApart ==
    /\ Len(Paragraphs) = 2
    /\ Len(Paragraphs[1]) <= chunk_size
    /\ Len(Paragraphs[2]) <= chunk_size
    /\ (Len(Paragraphs[1]) + 1) + Len(Paragraphs[2]) + 1 > chunk_size

\* the last min(chunk_overlap, length) characters of the first paragraph
FirstParagraphTail ==
    Suffix(Paragraphs[1], IF chunk_overlap < Len(Paragraphs[1]) THEN chunk_overlap
                          ELSE Len(Paragraphs[1]))

\* s, the separator and the second paragraph (the second paragraph alone when s is empty)
BeforeSecondParagraph(s) ==
    IF s = <<>> THEN Chars(Paragraphs[2])
    ELSE Chars(s) \o <<separator>> \o Chars(Paragraphs[2])

TextPositions(i) == {chunks[i].text[k].pos : k \in DOMAIN chunks[i].text} \ {0}

\* C12: every chunk split returns is non-empty and has no leading or trailing
\* whitespace, and the chunks stand in document order: no chunk ends before the
\* place in the text where the chunk returned before it ends.
C12_ChunksTrimmedInDocumentOrder ==
    SplitReturned =>
        /\ \A i \in DOMAIN chunks :
              /\ chunks[i].text /= <<>>
              /\ ~IsSpace(chunks[i].text[1])
              /\ ~IsSpace(chunks[i].text[Len(chunks[i].text)])
        /\ \A i \in 1..Len(chunks) - 1 :
              SetMax(TextPositions(i)) <= SetMax(TextPositions(i + 1))

\* C13: with chunk_size >= 1 and 0 <= chunk_overlap < chunk_size, every call of
\* split ends with the return of a finite sequence, never with an exception,
\* whatever the text.
C13_SplitTerminates ==
    (cpc = "done" /\ chunk_size >= 1 /\ OverlapBelowSize) =>
        /\ ~split_raised
        /\ DOMAIN chunks = 1..Len(chunks)

\* one paragraph without blank lines and sentence punctuation, longer than
\* chunk_size, came back cut into forced windows
C13_Witness ==
    /\ SplitReturned
    /\ OverlapBelowSize
    /\ Len(text) > 2 * chunk_size
    /\ \A p \in DOMAIN text : text[p] = "a"
    /\ Len(chunks) >= 3
    /\ \A i \in DOMAIN chunks : chunks[i].kind = "window"

\* C14: the forced slicing advances by a positive step also when
\* chunk_overlap >= chunk_size: split does not raise, no character of a sentence
\* longer than chunk_size is dropped, and no window is longer than chunk_size.
C14_ForcedSlicingGuarded ==
    cpc = "done" =>
        /\ ~split_raised
        /\ \A p \in DOMAIN text :
              text[p] \notin Whitespace =>
                  \E i \in DOMAIN chunks : p \in TextPositions(i)
        /\ \A i \in DOMAIN chunks :
              chunks[i].kind = "window" => Len(chunks[i].text) <= chunk_size

---------------------------------------------------------------------------
(* Claims about VectorStore.add_note and NoteSystem                        *)

\* add_note, called by add_content or on the store itself, has returned
AddNoteReturned ==
    /\ npc = "ready"
    /\ call.op \in {"add_content", "add_note"}
    /\ finished.add_note = "returned"

\* the records the collection holds for a document
OwnedBy(held, note_id) == {r \in held : r.note_id = note_id}

\* C15: for a document whose text is not blank, add_note returns one id per
\* chunk in chunk order, the i-th id being "{note_id}_chunk_{i}" for i in
\* 0..n-1, all different; the record stored for chunk i carries the document
\* id, the title, the chunk, chunk_index i and total_chunks n, and these are the
\* document's records in the index when it had none before.
C15_OneIdPerChunk ==
    (AddNoteReturned /\ call.content.kind = "text") =>
        LET n == Len(ChunkText(call.content))
        IN  /\ n >= 1
            /\ Len(finished.ids) = n
            /\ \A k \in 1..n : finished.ids[k] = <<call.note_id, "_chunk_", k - 1>>
            /\ \A j, k \in 1..n : j /= k => finished.ids[j] /= finished.ids[k]
            /\ Len(records) = n
            /\ \A k \in 1..n :
                  /\ records[k].id = finished.ids[k]
                  /\ records[k].note_id = call.note_id
                  /\ records[k].title = call.title
                  /\ records[k].content = ChunkText(call.content)[k]
                  /\ records[k].chunk_index = k - 1
                  /\ records[k].total_chunks = n
                  /\ \E r \in index : r.id = finished.ids[k]
            /\ OwnedBy(index_before, call.note_id) = {} =>
                  OwnedBy(index, call.note_id) = Range(records)

\* add_note returned the ids of a document of several chunks while the index
\* held records of the other document
C15_Witness ==
    /\ AddNoteReturned
    /\ call.content.kind = "text"
    /\ Len(finished.ids) >= 2
    /\ OwnedBy(index_before, call.note_id) = {}
    /\ index_before /= {}
    /\ Cardinality(index) = Cardinality(index_before) + Len(finished.ids)

\* C16: when the text is empty or whitespace-only, add_note returns the empty
\* list at once (add_content does not even call it for the empty string) and
\* leaves the index as it was: no embedding call and no index write is made.
C16_BlankTextStoresNothing ==
    (call.op \in {"add_content", "add_note"} /\ call.content.kind \in {"empty", "blank"}) =>
        /\ npc = "ready"
        /\ finished.add_note =
              (IF call.op = "add_content" /\ call.content.kind = "empty"
               THEN "not_called" ELSE "returned")
        /\ finished.ids = <<>>
        /\ index = index_before
        /\ embed_calls = 0
        /\ index_writes = 0
        /\ records = <<>>

\* add_note was called on the store with a string of whitespace for a document
\* that has records in the index
C16_Witness ==
    /\ npc = "ready"
    /\ call.op = "add_note"
    /\ call.content.kind = "blank"
    /\ finished.returned = "ids"
    /\ OwnedBy(index, call.note_id) /= {}

\* C17: when the bulk write to the index fails, the ingestion reports the
\* failure to its caller: add_note returns no ids, and add_content does not
\* come to a normal end with the document registered.
C17_IndexFailureReported ==
    (npc = "ready" /\ call.op \in {"add_content", "add_note"} /\ finished.index_failed) =>
        /\ finished.add_note = "raised"
        /\ finished.ids = <<>>
        /\ call.op = "add_content" =>
              ~(finished.returned = "item" /\ call.note_id \in DOMAIN content_items)

\* C18: during one add_note of a document with n >= 1 chunks the index is not
\* touched while the chunks are embedded, the n calls of embed_single are all
\* made before the one call that writes the index, and that call is made once,
\* with all n records: the index never holds a part of them only.
C18_EmbedAllThenWriteOnce ==
    LET n == Len(ChunkText(call.content))
    IN  /\ npc \in {"embed", "write"} =>
              /\ n >= 1
              /\ index = index_before
              /\ index_writes = 0
              /\ embed_calls = Len(records)
              /\ npc = "write" => embed_calls = n
              /\ npc = "embed" => embed_calls < n
        /\ (npc = "ready" /\ call.op \in {"add_content", "add_note"}
                /\ finished.add_note \in {"returned", "raised"} /\ n >= 1) =>
              /\ embed_calls = n
              /\ Len(records) = n
              /\ index_writes = 1
              /\ finished.add_note = "raised" => index = index_before
              /\ finished.add_note = "returned" =>
                    /\ index_before \subseteq index
                    /\ (index \ index_before) \subseteq Range(records)
                    /\ \A r \in Range(records) : \E h \in index : h.id = r.id
                    /\ OwnedBy(index_before, call.note_id) = {} => Range(records) \subseteq index

\* a document of several chunks went into an index that held records of the
\* other document: every chunk was embedded, then the index written once
C18_Witness ==
    /\ npc = "ready"
    /\ call.op \in {"add_content", "add_note"}
    /\ finished.add_note = "returned"
    /\ embed_calls >= 2
    /\ index_writes = 1
    /\ index_before /= {}
    /\ Range(records) \subseteq index
    /\ Range(records) \cap index_before = {}

\* C19: ingesting a document again under the same id replaces its chunk set:
\* once add_note has returned, the records the index holds for the id are
\* exactly the records of the text just given (none of an earlier text is
\* left), so that the same text ingested twice leaves what it left once.
C19_ReingestReplaces ==
    AddNoteReturned => OwnedBy(index, call.note_id) = Range(records)

\* C20: whenever delete_note(id) returns True, the document is gone from
\* content_items and the index holds no record owned by id, also when the call
\* that deletes from the index fails.
C20_DeletedEverywhere ==
    (npc = "ready" /\ call.op = "delete_note" /\ finished.returned = "True") =>
        /\ call.note_id \notin DOMAIN content_items
        /\ OwnedBy(index, call.note_id) = {}

---------------------------------------------------------------------------
(* Claims about the ids of documents and a NoteSystem without a vector store *)

\* two ContentItems of one source: the same source type and the same path
SameSource(a, b) == a.source_type = b.source_type /\ a.source_path = b.source_path

\* the items add_content has been called for
AddedItems == {processed[k] : k \in 1..added}

C22_EmbeddingErrorFails ==
    /\ \A k \in DOMAIN records : ~records[k].embedding.zero
    /\ \A r \in index : ~r.embedding.zero
    /\ (npc = "ready" /\ ~provider_up /\ embed_calls > 0) => finished.add_note = "raised"

\* C23: the query vector that query hands to the index search is the vector
\* the EmbeddingProvider returns for the question.
C23_QueryVectorIsEmbedding ==
    Returned => query_embedding = ProviderEmbedding(question)

\* similarity thresholds, in tenths
Thresholds == 0..10

\* the comparison of lines 52 and 65 with the bound of a similarity threshold t
\* in place of the literal: similarity >= t is distance <= 10 - t
DistanceBound(t) == 10 - t

AcceptedAt(results, t) == {r \in Range(results) : KeptAt(r, DistanceBound(t))}

QueryAcceptedAt(results, t) == ~GateRejectsAt(results, DistanceBound(t))

C28_StagesAndProviderCall ==
    Returned =>
        /\ ~answer.has_sufficient_sources =>
              /\ stages = <<"embedding", "searching", "gating", "rejected">>
              /\ graph_calls = 0
              /\ llm_calls = 0
        /\ answer.has_sufficient_sources =>
              /\ stages = <<"embedding", "searching", "gating", "assembling",
                            "generating", "answered">>
              /\ llm => (llm_calls = 1 /\ answer.content /= LLM_STUB)

---------------------------------------------------------------------------
(* Claims about NoteSystem.ask and the NoteSystem without a vector store   *)

AskEnded == asked.outcome /= "none"

\* C24: without a vector store, ask does not raise for any question: it
\* returns the payload with the index-unavailable text, sources [],
\* confidence 0, has_sufficient_sources false and source_chunks [], and calls
\* neither the embedding nor the completion provider.
C24_AskWithoutIndexRejects ==
    (AskEnded /\ ~vector_store) =>
        /\ asked.outcome = "returned"
        /\ asked.payload = [answer |-> INDEX_UNAVAILABLE,
                            sources |-> <<>>,
                            confidence |-> 0,
                            has_sufficient_sources |-> FALSE,
                            source_chunks |-> <<>>]
        /\ ~asked.engine_built
        /\ asked.provider_calls = 0
        /\ embed_calls = 0

\* a question asked of a NoteSystem without a vector store that holds documents
C24_Witness ==
    /\ AskEnded
    /\ ~vector_store
    /\ asked.question = "why"
    /\ added = 2
    /\ content_items /= <<>>

\* C25: without a vector store ingestion fails closed: add_content does not
\* return a normally ingested document and does not register it in
\* content_items.
C25_IngestionFailsClosed ==
    (~vector_store /\ npc = "ready" /\ finished.op = "add_content") =>
        /\ finished.returned /= "item"
        /\ finished.note_id \notin DOMAIN content_items

\* C26: with a vector store, ask completes without raising for every question
\* and returns a payload taken from the Answer of QueryEngine.query.
C26_AskWithIndexReturns ==
    (AskEnded /\ vector_store) =>
        /\ asked.outcome = "returned"
        /\ asked.engine_built

\* C29: between the calls of a NoteSystem, whatever calls of add_content and
\* delete_note and whatever restarts came before, every record of the index
\* is owned by a document id that is a key of content_items.
C29_IndexedDocumentsRegistered ==
    npc = "ready" => \A r \in index : r.note_id \in DOMAIN content_items

\* the chunk holds every character of some paragraph of the text
HoldsWholeParagraph(ch) ==
    \E k \in DOMAIN Paragraphs :
        \A i \in DOMAIN Paragraphs[k] :
            \E j \in DOMAIN ch.text : ch.text[j].pos = Paragraphs[k][i].pos

\* C30: no chunk split returns consists of an overlap seed alone: every chunk
\* the paragraph-merge step emits holds at least one complete paragraph of the
\* text, also when the running chunk was flushed before a paragraph longer
\* than chunk_size.
C30_NoSeedOnlyChunk ==
    (cpc = "done" /\ ~split_raised) =>
        \A k \in DOMAIN chunks :
            chunks[k].kind \in {"merge", "flush", "final"} =>
                HoldsWholeParagraph(chunks[k])

====
